---- MODULE Spec2Model ----
(***************************************************************************)
(* RoutineFlow timer engine (src/sw.js lines 60-272), the persistence      *)
(* module it writes its checkpoint through (src/js/storage.js), the boot   *)
(* sequence that recovers it (src/js/app.js initApp) and the duration      *)
(* codec (src/js/app.js msToTime, timeToMs).                               *)
(*                                                                         *)
(* The engine's module-level variables are the state.  Every exported      *)
(* function is an operator from engine state to engine state, written in   *)
(* the order of its statements, and every entry point (button handler,     *)
(* interval callback, promise continuation, page load) is one action.      *)
(***************************************************************************)
EXTENDS Integers, Sequences, FiniteSets, TLC

VARIABLES
    now,              \* Date.now(), milliseconds
    groups,           \* storage.js `groups`, the in-memory catalog
    timerState,       \* localStorage[TIMER_STATE_KEY]: << >> when absent, else << parsed item >>
    activeGroup,      \* sw.js:65
    currentTaskIndex, \* sw.js:66
    timerInterval,    \* sw.js:67, the handle last returned by setInterval
    isPaused,         \* sw.js:68
    startTime,        \* sw.js:69
    taskDurationMs,   \* sw.js:70
    remainingTimeMs,  \* sw.js:71
    intervals,        \* the browser's live setInterval(timerTick, 100) handles
    wakeSupported,    \* 'wakeLock' in navigator
    wakeLock,         \* sw.js:74, the sentinel last stored by requestWakeLock
    heldLocks,        \* the platform's screen wake locks that are held
    pendingRequests,  \* navigator.wakeLock.request() promises not yet settled
    pendingReleases,  \* wakeLock.release().then(...) continuations not yet run
    log,              \* calls made to the UI/notification layer since the last start or load
    display,          \* arguments of the last window.updateTimerTime call
    lastOp,           \* the entry point that ran last
    stopped,          \* a stopTimer has run and no run was started or recovered since
    pure,             \* the current run saw only startTimer and ticks
    pr,               \* pause, resume, first tick in a row: the phase reached ("ticked"
                      \* until the clock moves), the remaining time at the pause, the
                      \* time of the resume
    codec,            \* a use of the duration codec of app.js:12-29: the text given,
                      \* the milliseconds timeToMs made of it, the text msToTime
                      \* made of those
    ran               \* << >>, or << the time for which the task in memory has been
                      \* the current task and not paused, since processTask began it >>

engineVars == <<now, groups, timerState, activeGroup, currentTaskIndex, timerInterval,
                isPaused, startTime, taskDurationMs, remainingTimeMs, intervals,
                wakeSupported, wakeLock, heldLocks, pendingRequests, pendingReleases,
                log, display, lastOp, stopped, pure, pr>>

vars == <<engineVars, codec, ran>>

---------------------------------------------------------------------------
(* Bounds *)

ClockStep == 1000
MaxTime == 3000
MaxHandles == 2
MaxLocks == 2
MaxPending == 1

(* JavaScript values *)

\* Values of differing shapes are never compared: the group-valued variable
\* holds a record also when JavaScript holds null or undefined, a handle or a
\* sentinel that is null is 0, and an absent localStorage item is the empty
\* sequence (a present one the one-element sequence of its parsed JSON).
Null == [id |-> "null", tasks |-> << >>]
Undefined == [id |-> "undefined", tasks |-> << >>]
Falsy(g) == g = Null \/ g = Undefined
NoHandle == 0
NoLock == 0
Absent == << >>
NoDisplay == [remaining |-> -1, duration |-> -1]

Max(a, b) == IF a >= b THEN a ELSE b

Handles == 1..MaxHandles
LockIds == 1..MaxLocks

---------------------------------------------------------------------------
(* Duration codec, app.js:12-29. A text is the sequence of its characters, *)
(* here decimal digits and ':'.                                            *)

Digits == <<"0", "1", "2", "3", "4", "5", "6", "7", "8", "9">>

DigitValue(c) == (CHOOSE i \in 1..10 : Digits[i] = c) - 1

\* Number(str) for a text of decimal digits; Number("") is 0
RECURSIVE Number(_)
Number(str) ==
    IF str = << >> THEN 0
    ELSE Number(SubSeq(str, 1, Len(str) - 1)) * 10 + DigitValue(str[Len(str)])

\* timeStr.split(':')
RECURSIVE split(_)
split(str) ==
    LET colons == {i \in 1..Len(str) : str[i] = ":"}
    IN IF colons = {} THEN << str >>
       ELSE LET i == CHOOSE x \in colons : \A y \in colons : x <= y
            IN << SubSeq(str, 1, i - 1) >> \o split(SubSeq(str, i + 1, Len(str)))

\* app.js:24, timeStr.split(':').map(Number)
Parts(timeStr) ==
    LET texts == split(timeStr)
    IN [i \in 1..Len(texts) |-> Number(texts[i])]

\* String(n) for an integer n
RECURSIVE String(_)
String(n) ==
    IF n < 0 THEN << "-" >> \o String(-n)
    ELSE IF n < 10 THEN << Digits[n + 1] >>
    ELSE String(n \div 10) \o << Digits[(n % 10) + 1] >>

\* str.padStart(targetLength, padString) for a padString of one character
RECURSIVE padStart(_, _, _)
padStart(str, targetLength, padString) ==
    IF Len(str) >= targetLength THEN str
    ELSE padStart(<< padString >> \o str, targetLength, padString)

\* msToTime without the padStart of app.js:14-16
msToTime_NoPad(ms) ==
    LET totalSeconds == (ms + 500) \div 1000
        h == String(totalSeconds \div 3600)
        m == String((totalSeconds % 3600) \div 60)
        s == String(totalSeconds % 60)
    IN h \o << ":" >> \o m \o << ":" >> \o s

\* app.js:12-18; Math.round(ms / 1000) is the floor of ms / 1000 + 1/2
msToTime(ms) ==
    LET totalSeconds == (ms + 500) \div 1000
        h == padStart(String(totalSeconds \div 3600), 2, "0")
        m == padStart(String((totalSeconds % 3600) \div 60), 2, "0")
        s == padStart(String(totalSeconds % 60), 2, "0")
    IN h \o << ":" >> \o m \o << ":" >> \o s

---------------------------------------------------------------------------
(* Catalog: groups as storage.js keeps them. A task's duration is kept as  *)
(* Parts of its HH:MM:SS text, which is all that timeToMs reads of it.     *)

Task(name, duration, notify) == [name |-> name, duration |-> duration, notify |-> notify]
Group(id, tasks) == [id |-> id, tasks |-> tasks]

CatalogA ==
    << Group("g1", << Task("a", <<0, 0, 2>>, "both"), Task("b", <<0, 0, 1>>, "start") >>),
       Group("g2", << Task("c", <<0, 0, 1>>, "end"), Task("d", <<0, 0, 1>>, "none") >>),
       Group("g3", << >>) >>

\* The catalog after the CRUD layer removed task b from g1 and deleted g2.
CatalogB ==
    << Group("g1", << Task("a", <<0, 0, 2>>, "both") >>),
       Group("g3", << >>) >>

CatalogEmpty == << >>

\* app.js:313-322
DefaultGroup ==
    Group("group-default",
          << Task("Warm-up", <<0, 3, 0>>, "end"),
             Task("Work Set", <<0, 15, 0>>, "start"),
             Task("Cool-down", <<0, 5, 0>>, "end") >>)

Catalogs == {CatalogA, CatalogB, CatalogEmpty}
GroupIds == {"g1", "g2", "g3"}

\* app.js:25-28, on the parts of the text; a missing part is undefined, and
\* undefined || 0 is 0
timeToMs(parts) ==
    LET h == IF Len(parts) >= 1 THEN parts[1] ELSE 0
        m == IF Len(parts) >= 2 THEN parts[2] ELSE 0
        s == IF Len(parts) >= 3 THEN parts[3] ELSE 0
    IN (h * 3600 + m * 60 + s) * 1000

\* storage.js:67-69, over the catalog gs
getGroupById(gs, groupId) ==
    LET hits == {i \in 1..Len(gs) : gs[i].id = groupId}
    IN IF hits = {} THEN Undefined
       ELSE gs[CHOOSE i \in hits : \A j \in hits : i <= j]

\* g.tasks[i] with JavaScript's 0-based index is defined
HasTask(g, i) == i >= 0 /\ i < Len(g.tasks)
TaskAt(g, i) == g.tasks[i + 1]

---------------------------------------------------------------------------
(* Engine state as one record, so that the functions compose as in sw.js. *)

St == [groups |-> groups, activeGroup |-> activeGroup, currentTaskIndex |-> currentTaskIndex,
       timerInterval |-> timerInterval, isPaused |-> isPaused,
       startTime |-> startTime, taskDurationMs |-> taskDurationMs,
       remainingTimeMs |-> remainingTimeMs, intervals |-> intervals,
       timerState |-> timerState, wakeLock |-> wakeLock, heldLocks |-> heldLocks,
       pendingRequests |-> pendingRequests, pendingReleases |-> pendingReleases,
       log |-> log, display |-> display]

Becomes(s) ==
    /\ groups' = s.groups
    /\ activeGroup' = s.activeGroup
    /\ currentTaskIndex' = s.currentTaskIndex
    /\ timerInterval' = s.timerInterval
    /\ isPaused' = s.isPaused
    /\ startTime' = s.startTime
    /\ taskDurationMs' = s.taskDurationMs
    /\ remainingTimeMs' = s.remainingTimeMs
    /\ intervals' = s.intervals
    /\ timerState' = s.timerState
    /\ wakeLock' = s.wakeLock
    /\ heldLocks' = s.heldLocks
    /\ pendingRequests' = s.pendingRequests
    /\ pendingReleases' = s.pendingReleases
    /\ log' = s.log
    /\ display' = s.display

\* The module-level initialisers, sw.js:65-74, in a page that was just loaded.
FreshPage(s) ==
    [s EXCEPT !.activeGroup = Null, !.currentTaskIndex = 0, !.timerInterval = NoHandle,
              !.isPaused = FALSE, !.startTime = 0, !.taskDurationMs = 0,
              !.remainingTimeMs = 0, !.intervals = {}, !.wakeLock = NoLock,
              !.heldLocks = {}, !.pendingRequests = 0, !.pendingReleases = 0,
              !.log = << >>, !.display = NoDisplay]

(* Browser timers *)

clearInterval(s, h) == [s EXCEPT !.intervals = @ \ {h}]

\* timerInterval = setInterval(timerTick, 100); a page holding MaxHandles live
\* timers is given no further one.
setInterval(s) ==
    LET free == Handles \ s.intervals
    IN IF free = {} THEN s
       ELSE LET h == CHOOSE x \in free : \A y \in free : x <= y
            IN [s EXCEPT !.intervals = @ \cup {h}, !.timerInterval = h]

(* Calls into app.js *)

Emit(s, e) == [s EXCEPT !.log = Append(@, e)]

\* app.js:186-197
updateTimerDisplay(s, task, taskNumber) ==
    Emit(s, [ev |-> "begin", group |-> s.activeGroup.id, task |-> task.name,
             num |-> taskNumber, arg |-> ""])

\* app.js:66-84
sendTaskNotification(s, taskName, type) ==
    Emit(s, [ev |-> "notify", group |-> s.activeGroup.id, task |-> taskName,
             num |-> 0, arg |-> type])

\* app.js:212-230
handleRoutineComplete(s, finished) ==
    Emit(s, [ev |-> "ended", group |-> "", task |-> "", num |-> 0,
             arg |-> IF finished THEN "finished" ELSE "stopped"])

\* app.js:202-207
updateTimerTime(s, remainingMs, durationMs) ==
    [s EXCEPT !.display = [remaining |-> remainingMs, duration |-> durationMs]]

(* storage.js *)

\* storage.js:37-39
saveTimerState(s, state) == [s EXCEPT !.timerState = << state >>]

\* storage.js:58-60
clearTimerState(s) == [s EXCEPT !.timerState = Absent]

Checkpoint(s, paused) ==
    [groupId |-> s.activeGroup.id, taskIndex |-> s.currentTaskIndex, paused |-> paused,
     remaining |-> s.remainingTimeMs, taskDuration |-> s.taskDurationMs, lastTick |-> now]

---------------------------------------------------------------------------
(* sw.js: the timer engine *)

\* sw.js:76-85, up to the await: the request is made, its promise pending
requestWakeLock(s) ==
    IF wakeSupported THEN [s EXCEPT !.pendingRequests = @ + 1] ELSE s

\* sw.js:87-94: release() frees the lock; its continuation runs later
releaseWakeLock(s) ==
    IF s.wakeLock # NoLock
    THEN [s EXCEPT !.heldLocks = @ \ {s.wakeLock}, !.pendingReleases = @ + 1]
    ELSE s

\* sw.js:221-234
stopTimer(s, finished) ==
    LET s1 == clearInterval(s, s.timerInterval)
        s2 == releaseWakeLock(s1)
        s3 == clearTimerState(s2)
        wasActive == s3.activeGroup # Null
        s4 == [s3 EXCEPT !.activeGroup = Null, !.currentTaskIndex = 0, !.isPaused = FALSE]
    IN IF wasActive THEN handleRoutineComplete(s4, finished) ELSE s4

\* processTask with the start notification sent for policy start alone
processTask_StartOnly(s) ==
    IF Falsy(s.activeGroup) \/ s.currentTaskIndex >= Len(s.activeGroup.tasks)
    THEN stopTimer(s, TRUE)
    ELSE LET currentTask == TaskAt(s.activeGroup, s.currentTaskIndex)
             s1 == [s EXCEPT !.taskDurationMs = timeToMs(currentTask.duration),
                             !.remainingTimeMs = timeToMs(currentTask.duration),
                             !.startTime = now,
                             !.isPaused = FALSE]
             s2 == updateTimerDisplay(s1, currentTask, s1.currentTaskIndex + 1)
             s3 == IF currentTask.notify = "start"
                   THEN sendTaskNotification(s2, currentTask.name, "start")
                   ELSE s2
             s4 == clearInterval(s3, s3.timerInterval)
         IN setInterval(s4)

\* processTask without the clearInterval of sw.js:137
processTask_NoClear(s) ==
    IF Falsy(s.activeGroup) \/ s.currentTaskIndex >= Len(s.activeGroup.tasks)
    THEN stopTimer(s, TRUE)
    ELSE LET currentTask == TaskAt(s.activeGroup, s.currentTaskIndex)
             s1 == [s EXCEPT !.taskDurationMs = timeToMs(currentTask.duration),
                             !.remainingTimeMs = timeToMs(currentTask.duration),
                             !.startTime = now,
                             !.isPaused = FALSE]
             s2 == updateTimerDisplay(s1, currentTask, s1.currentTaskIndex + 1)
             s3 == IF currentTask.notify = "start" \/ currentTask.notify = "both"
                   THEN sendTaskNotification(s2, currentTask.name, "start")
                   ELSE s2
         IN setInterval(s3)

\* sw.js:117-139
processTask(s) ==
    IF Falsy(s.activeGroup) \/ s.currentTaskIndex >= Len(s.activeGroup.tasks)
    THEN stopTimer(s, TRUE)
    ELSE LET currentTask == TaskAt(s.activeGroup, s.currentTaskIndex)
             s1 == [s EXCEPT !.taskDurationMs = timeToMs(currentTask.duration),
                             !.remainingTimeMs = timeToMs(currentTask.duration),
                             !.startTime = now,
                             !.isPaused = FALSE]
             s2 == updateTimerDisplay(s1, currentTask, s1.currentTaskIndex + 1)
             s3 == IF currentTask.notify = "start" \/ currentTask.notify = "both"
                   THEN sendTaskNotification(s2, currentTask.name, "start")
                   ELSE s2
             s4 == clearInterval(s3, s3.timerInterval)
         IN setInterval(s4)

\* sw.js:100-112
startTimer(s, groupId) ==
    LET s1 == [s EXCEPT !.activeGroup = getGroupById(s.groups, groupId),
                        !.currentTaskIndex = 0,
                        !.isPaused = FALSE]
    IN IF Falsy(s1.activeGroup) \/ Len(s1.activeGroup.tasks) = 0
       THEN s1
       ELSE processTask(requestWakeLock(s1))

\* timerTick taking the time since startTime off the remaining time of the
\* tick before, instead of off the task's duration (sw.js:148-149)
timerTick_Accumulate(s, ok) ==
    IF s.isPaused \/ Falsy(s.activeGroup) THEN s
    ELSE LET elapsed == now - s.startTime
             s1 == [s EXCEPT !.remainingTimeMs = Max(0, s.remainingTimeMs - elapsed)]
             s2 == updateTimerTime(s1, s1.remainingTimeMs, s1.taskDurationMs)
             s3 == saveTimerState(s2, Checkpoint(s2, FALSE))
             s4 == clearInterval(s3, s3.timerInterval)
         IN IF ~ok THEN s2
            ELSE IF s3.remainingTimeMs # 0 THEN s3
            ELSE IF ~HasTask(s4.activeGroup, s4.currentTaskIndex)
                 THEN s4
            ELSE LET currentTask == TaskAt(s4.activeGroup, s4.currentTaskIndex)
                     s5 == IF currentTask.notify = "end" \/ currentTask.notify = "both"
                           THEN sendTaskNotification(s4, currentTask.name, "end")
                           ELSE s4
                 IN processTask([s5 EXCEPT !.currentTaskIndex = @ + 1])

\* timerTick sending the end notification after processTask, not before it
\* (sw.js:167-173)
timerTick_NotifyLast(s, ok) ==
    IF s.isPaused \/ Falsy(s.activeGroup) THEN s
    ELSE LET elapsed == now - s.startTime
             s1 == [s EXCEPT !.remainingTimeMs = Max(0, s.taskDurationMs - elapsed)]
             s2 == updateTimerTime(s1, s1.remainingTimeMs, s1.taskDurationMs)
             s3 == saveTimerState(s2, Checkpoint(s2, FALSE))
             s4 == clearInterval(s3, s3.timerInterval)
         IN IF ~ok THEN s2
            ELSE IF s3.remainingTimeMs # 0 THEN s3
            ELSE IF ~HasTask(s4.activeGroup, s4.currentTaskIndex)
                 THEN s4
            ELSE LET currentTask == TaskAt(s4.activeGroup, s4.currentTaskIndex)
                     s5 == processTask([s4 EXCEPT !.currentTaskIndex = @ + 1])
                 IN IF currentTask.notify = "end" \/ currentTask.notify = "both"
                    THEN [s5 EXCEPT !.log = Append(@,
                             [ev |-> "notify", group |-> s4.activeGroup.id,
                              task |-> currentTask.name, num |-> 0, arg |-> "end"])]
                    ELSE s5

\* sw.js:144-177; ok = FALSE: localStorage.setItem throws, which ends the callback
timerTick(s, ok) ==
    IF s.isPaused \/ Falsy(s.activeGroup) THEN s
    ELSE LET elapsed == now - s.startTime
             s1 == [s EXCEPT !.remainingTimeMs = Max(0, s.taskDurationMs - elapsed)]
             s2 == updateTimerTime(s1, s1.remainingTimeMs, s1.taskDurationMs)
             s3 == saveTimerState(s2, Checkpoint(s2, FALSE))
             s4 == clearInterval(s3, s3.timerInterval)
         IN IF ~ok THEN s2
            ELSE IF s3.remainingTimeMs # 0 THEN s3
            ELSE IF ~HasTask(s4.activeGroup, s4.currentTaskIndex)
                 THEN s4   \* currentTask is undefined: reading .notify throws
            ELSE LET currentTask == TaskAt(s4.activeGroup, s4.currentTaskIndex)
                     s5 == IF currentTask.notify = "end" \/ currentTask.notify = "both"
                           THEN sendTaskNotification(s4, currentTask.name, "end")
                           ELSE s4
                 IN processTask([s5 EXCEPT !.currentTaskIndex = @ + 1])

\* togglePause without the re-anchoring of startTime of sw.js:187
togglePause_NoReanchor(s, ok) ==
    LET s1 == [s EXCEPT !.isPaused = ~@]
        s2 == IF ~s1.isPaused
              THEN setInterval(clearInterval(s1, s1.timerInterval))
              ELSE clearInterval(s1, s1.timerInterval)
    IN IF Falsy(s2.activeGroup) \/ ~ok THEN s2
       ELSE saveTimerState(s2, Checkpoint(s2, s2.isPaused))

\* togglePause without the clearInterval of sw.js:191
togglePause_NoClearOnPause(s, ok) ==
    LET s1 == [s EXCEPT !.isPaused = ~@]
        s2 == IF ~s1.isPaused
              THEN setInterval(clearInterval(
                       [s1 EXCEPT !.startTime = now - (s1.taskDurationMs - s1.remainingTimeMs)],
                       s1.timerInterval))
              ELSE s1
    IN IF Falsy(s2.activeGroup) \/ ~ok THEN s2
       ELSE saveTimerState(s2, Checkpoint(s2, s2.isPaused))

\* sw.js:182-205; reading activeGroup.id of null or undefined throws, after
\* the flag and the timer were changed
togglePause(s, ok) ==
    LET s1 == [s EXCEPT !.isPaused = ~@]
        s2 == IF ~s1.isPaused
              THEN setInterval(clearInterval(
                       [s1 EXCEPT !.startTime = now - (s1.taskDurationMs - s1.remainingTimeMs)],
                       s1.timerInterval))
              ELSE clearInterval(s1, s1.timerInterval)
    IN IF Falsy(s2.activeGroup) \/ ~ok THEN s2
       ELSE saveTimerState(s2, Checkpoint(s2, s2.isPaused))

\* skipTask without the increment of sw.js:213
skipTask_NoAdvance(s) ==
    IF Falsy(s.activeGroup) THEN s
    ELSE processTask(clearInterval(s, s.timerInterval))

\* sw.js:210-215
skipTask(s) ==
    IF Falsy(s.activeGroup) THEN s
    ELSE processTask([clearInterval(s, s.timerInterval) EXCEPT !.currentTaskIndex = @ + 1])

\* recoverTimer without the correction of sw.js:264-265
recoverTimer_NoDeduct(s, state) ==
    LET s1 == [s EXCEPT !.activeGroup = getGroupById(s.groups, state.groupId)]
    IN IF Falsy(s1.activeGroup)
       THEN [st |-> clearTimerState(s1), ret |-> FALSE]
       ELSE IF ~HasTask(s1.activeGroup, state.taskIndex)
       THEN [st |-> clearTimerState(s1), ret |-> FALSE]
       ELSE LET currentTask == TaskAt(s1.activeGroup, state.taskIndex)
                s2 == [s1 EXCEPT !.currentTaskIndex = state.taskIndex,
                                 !.taskDurationMs = state.taskDuration,
                                 !.remainingTimeMs = state.remaining,
                                 !.isPaused = state.paused]
                s3 == requestWakeLock(s2)
                s4 == updateTimerDisplay(s3, currentTask, s3.currentTaskIndex + 1)
                s5 == updateTimerTime(s4, s4.remainingTimeMs, s4.taskDurationMs)
                s7 == [s5 EXCEPT !.startTime = now - (s5.taskDurationMs - s5.remainingTimeMs)]
            IN [st |-> IF ~s5.isPaused THEN setInterval(s7) ELSE s5, ret |-> TRUE]

\* recoverTimer without the Math.max(0, ...) of sw.js:264
recoverTimer_NoClamp(s, state) ==
    LET s1 == [s EXCEPT !.activeGroup = getGroupById(s.groups, state.groupId)]
    IN IF Falsy(s1.activeGroup)
       THEN [st |-> clearTimerState(s1), ret |-> FALSE]
       ELSE IF ~HasTask(s1.activeGroup, state.taskIndex)
       THEN [st |-> clearTimerState(s1), ret |-> FALSE]
       ELSE LET currentTask == TaskAt(s1.activeGroup, state.taskIndex)
                s2 == [s1 EXCEPT !.currentTaskIndex = state.taskIndex,
                                 !.taskDurationMs = state.taskDuration,
                                 !.remainingTimeMs = state.remaining,
                                 !.isPaused = state.paused]
                s3 == requestWakeLock(s2)
                s4 == updateTimerDisplay(s3, currentTask, s3.currentTaskIndex + 1)
                s5 == updateTimerTime(s4, s4.remainingTimeMs, s4.taskDurationMs)
                timeSinceLastTick == now - state.lastTick
                s6 == [s5 EXCEPT !.remainingTimeMs = @ - timeSinceLastTick]
                s7 == [s6 EXCEPT !.startTime = now - (s6.taskDurationMs - s6.remainingTimeMs)]
            IN [st |-> IF ~s5.isPaused THEN setInterval(s7) ELSE s5, ret |-> TRUE]

\* recoverTimer without the test of isPaused of sw.js:262
recoverTimer_IgnorePaused(s, state) ==
    LET s1 == [s EXCEPT !.activeGroup = getGroupById(s.groups, state.groupId)]
    IN IF Falsy(s1.activeGroup)
       THEN [st |-> clearTimerState(s1), ret |-> FALSE]
       ELSE IF ~HasTask(s1.activeGroup, state.taskIndex)
       THEN [st |-> clearTimerState(s1), ret |-> FALSE]
       ELSE LET currentTask == TaskAt(s1.activeGroup, state.taskIndex)
                s2 == [s1 EXCEPT !.currentTaskIndex = state.taskIndex,
                                 !.taskDurationMs = state.taskDuration,
                                 !.remainingTimeMs = state.remaining,
                                 !.isPaused = state.paused]
                s3 == requestWakeLock(s2)
                s4 == updateTimerDisplay(s3, currentTask, s3.currentTaskIndex + 1)
                s5 == updateTimerTime(s4, s4.remainingTimeMs, s4.taskDurationMs)
                timeSinceLastTick == now - state.lastTick
                s6 == [s5 EXCEPT !.remainingTimeMs = Max(0, @ - timeSinceLastTick)]
                s7 == [s6 EXCEPT !.startTime = now - (s6.taskDurationMs - s6.remainingTimeMs)]
            IN [st |-> setInterval(s7), ret |-> TRUE]

\* recoverTimer without the clearTimerState of sw.js:243
recoverTimer_KeepCheckpoint(s, state) ==
    LET s1 == [s EXCEPT !.activeGroup = getGroupById(s.groups, state.groupId)]
    IN IF Falsy(s1.activeGroup)
       THEN [st |-> s1, ret |-> FALSE]
       ELSE IF ~HasTask(s1.activeGroup, state.taskIndex)
       THEN [st |-> clearTimerState(s1), ret |-> FALSE]
       ELSE LET currentTask == TaskAt(s1.activeGroup, state.taskIndex)
                s2 == [s1 EXCEPT !.currentTaskIndex = state.taskIndex,
                                 !.taskDurationMs = state.taskDuration,
                                 !.remainingTimeMs = state.remaining,
                                 !.isPaused = state.paused]
                s3 == requestWakeLock(s2)
                s4 == updateTimerDisplay(s3, currentTask, s3.currentTaskIndex + 1)
                s5 == updateTimerTime(s4, s4.remainingTimeMs, s4.taskDurationMs)
                timeSinceLastTick == now - state.lastTick
                s6 == [s5 EXCEPT !.remainingTimeMs = Max(0, @ - timeSinceLastTick)]
                s7 == [s6 EXCEPT !.startTime = now - (s6.taskDurationMs - s6.remainingTimeMs)]
            IN [st |-> IF ~s5.isPaused THEN setInterval(s7) ELSE s5, ret |-> TRUE]

\* sw.js:240-272; the result is the state and the value returned
recoverTimer(s, state) ==
    LET s1 == [s EXCEPT !.activeGroup = getGroupById(s.groups, state.groupId)]
    IN IF Falsy(s1.activeGroup)
       THEN [st |-> clearTimerState(s1), ret |-> FALSE]
       ELSE IF ~HasTask(s1.activeGroup, state.taskIndex)
       THEN [st |-> clearTimerState(s1), ret |-> FALSE]
       ELSE LET currentTask == TaskAt(s1.activeGroup, state.taskIndex)
                s2 == [s1 EXCEPT !.currentTaskIndex = state.taskIndex,
                                 !.taskDurationMs = state.taskDuration,
                                 !.remainingTimeMs = state.remaining,
                                 !.isPaused = state.paused]
                s3 == requestWakeLock(s2)
                s4 == updateTimerDisplay(s3, currentTask, s3.currentTaskIndex + 1)
                s5 == updateTimerTime(s4, s4.remainingTimeMs, s4.taskDurationMs)
                timeSinceLastTick == now - state.lastTick
                s6 == [s5 EXCEPT !.remainingTimeMs = Max(0, @ - timeSinceLastTick)]
                s7 == [s6 EXCEPT !.startTime = now - (s6.taskDurationMs - s6.remainingTimeMs)]
            IN [st |-> IF ~s5.isPaused THEN setInterval(s7) ELSE s5, ret |-> TRUE]

\* app.js:302-326 on a page that was just loaded: loadData read the catalog gs
initApp(s, gs) ==
    LET s0 == [FreshPage(s) EXCEPT !.groups = gs]
        r == IF s0.timerState # Absent
             THEN recoverTimer(s0, s0.timerState[1])
             ELSE [st |-> s0, ret |-> FALSE]
    IN IF r.ret THEN r
       ELSE IF Len(r.st.groups) = 0
       THEN [st |-> [r.st EXCEPT !.groups = << DefaultGroup >>], ret |-> FALSE]
       ELSE r

---------------------------------------------------------------------------
(* Entry points *)

\* No task is being followed.
Untracked == << >>

\* The codec was not used.
NoCodec == [step |-> "none", timeStr |-> << >>, ms |-> 0, text |-> << >>]

PrNone == [phase |-> "none", rem |-> 0, at |-> 0]

\* Pending promises stay within the bound.
Bounded(s) == s.pendingRequests <= MaxPending /\ s.pendingReleases <= MaxPending

\* stopTimer ran inside the step from s to s2 of a tick or a skip
Ended(s, s2) == s.activeGroup # Null /\ s2.activeGroup = Null

Storage0 ==
    [groups |-> << >>, activeGroup |-> Null, currentTaskIndex |-> 0,
     timerInterval |-> NoHandle, isPaused |-> FALSE, startTime |-> 0,
     taskDurationMs |-> 0, remainingTimeMs |-> 0, intervals |-> {},
     timerState |-> Absent, wakeLock |-> NoLock, heldLocks |-> {},
     pendingRequests |-> 0, pendingReleases |-> 0, log |-> << >>,
     display |-> NoDisplay]

\* First load of the page: no checkpoint stored, some catalog stored.
\* supported: whether the platform has the Wake Lock API (sw.js:77).
InitOn(supported) ==
    /\ now = 0
    /\ wakeSupported = supported
    /\ \E gs \in Catalogs :
          LET s == initApp(Storage0, gs).st
          IN /\ groups = s.groups
             /\ activeGroup = s.activeGroup
             /\ currentTaskIndex = s.currentTaskIndex
             /\ timerInterval = s.timerInterval
             /\ isPaused = s.isPaused
             /\ startTime = s.startTime
             /\ taskDurationMs = s.taskDurationMs
             /\ remainingTimeMs = s.remainingTimeMs
             /\ intervals = s.intervals
             /\ timerState = s.timerState
             /\ wakeLock = s.wakeLock
             /\ heldLocks = s.heldLocks
             /\ pendingRequests = s.pendingRequests
             /\ pendingReleases = s.pendingReleases
             /\ log = s.log
             /\ display = s.display
    /\ lastOp = "load"
    /\ stopped = FALSE
    /\ pure = FALSE
    /\ pr = PrNone

\* The clock moves on.
Advance ==
    /\ now + ClockStep <= MaxTime
    /\ now' = now + ClockStep
    /\ lastOp' = "advance"
    /\ pr' = IF pr.phase = "ticked" THEN PrNone ELSE pr
    /\ UNCHANGED <<groups, timerState, activeGroup, currentTaskIndex, timerInterval,
                   isPaused, startTime, taskDurationMs, remainingTimeMs, intervals,
                   wakeSupported, wakeLock, heldLocks, pendingRequests,
                   pendingReleases, log, display, stopped, pure, codec, ran>>

\* app.js:282-283, the Start button of a group card (or any caller of the export)
StartTimer(groupId) ==
    LET s2 == startTimer([St EXCEPT !.log = << >>], groupId)
        ok == ~Falsy(s2.activeGroup) /\ Len(s2.activeGroup.tasks) > 0
    IN /\ Bounded(s2)
       /\ Becomes(s2)
       /\ lastOp' = IF ok THEN "start" ELSE "startFailed"
       /\ stopped' = IF ok THEN FALSE ELSE stopped
       /\ pure' = ok
       /\ pr' = PrNone
       /\ UNCHANGED <<now, wakeSupported, codec, ran>>

\* The callback of a live interval runs.
TimerTick(ok) ==
    LET s2 == timerTick(St, ok)
        idle == isPaused \/ Falsy(activeGroup)
    IN /\ intervals # {}
       /\ Bounded(s2)
       /\ Becomes(s2)
       /\ lastOp' = IF idle THEN "tickIdle" ELSE IF ok THEN "tick" ELSE "tickThrew"
       /\ stopped' = IF Ended(St, s2) THEN TRUE ELSE stopped
       /\ pure' = pure
       /\ pr' = IF idle THEN pr
                ELSE IF pr.phase = "resumed" THEN [pr EXCEPT !.phase = "ticked"]
                ELSE PrNone
       /\ UNCHANGED <<now, wakeSupported, codec, ran>>

\* app.js:343-346, the Pause/Resume button
TogglePause(ok) ==
    LET s2 == togglePause(St, ok)
    IN /\ Becomes(s2)
       /\ lastOp' = IF Falsy(activeGroup) \/ ~ok THEN "toggleThrew"
                    ELSE IF s2.isPaused THEN "pause" ELSE "resume"
       /\ stopped' = stopped
       /\ pure' = FALSE
       /\ pr' = IF Falsy(activeGroup) THEN PrNone
                ELSE IF s2.isPaused
                THEN [phase |-> "paused", rem |-> remainingTimeMs, at |-> 0]
                ELSE IF pr.phase = "paused"
                THEN [phase |-> "resumed", rem |-> pr.rem, at |-> now]
                ELSE PrNone
       /\ UNCHANGED <<now, wakeSupported, codec, ran>>

\* app.js:347, the Skip button
SkipTask ==
    LET s2 == skipTask(St)
    IN /\ Bounded(s2)
       /\ Becomes(s2)
       /\ lastOp' = "skip"
       /\ stopped' = IF Ended(St, s2) THEN TRUE ELSE stopped
       /\ pure' = FALSE
       /\ pr' = PrNone
       /\ UNCHANGED <<now, wakeSupported, codec, ran>>

\* app.js:348-352, the Stop button
StopTimer ==
    LET s2 == stopTimer(St, FALSE)
    IN /\ Bounded(s2)
       /\ Becomes(s2)
       /\ lastOp' = "stop"
       /\ stopped' = TRUE
       /\ pure' = FALSE
       /\ pr' = PrNone
       /\ UNCHANGED <<now, wakeSupported, codec, ran>>

\* The page is closed or crashes and is loaded again (app.js:368): timers,
\* promises and wake locks of the old page are gone, localStorage stays, and
\* the catalog is whatever storage holds by then.
Reload(gs) ==
    LET r == initApp(St, gs)
    IN /\ Becomes(r.st)
       /\ lastOp' = IF r.ret THEN "recover"
                    ELSE IF timerState # Absent THEN "recoverFailed"
                    ELSE "load"
       /\ stopped' = IF r.ret THEN FALSE ELSE stopped
       /\ pure' = FALSE
       /\ pr' = PrNone
       /\ UNCHANGED <<now, wakeSupported, codec, ran>>

\* sw.js:79-80: the request promise fulfils with a new sentinel
WakeLockGranted ==
    LET free == LockIds \ (heldLocks \cup {wakeLock})
    IN /\ pendingRequests > 0
       /\ free # {}
       /\ LET l == CHOOSE x \in free : \A y \in free : x <= y
          IN /\ heldLocks' = heldLocks \cup {l}
             /\ wakeLock' = l
       /\ pendingRequests' = pendingRequests - 1
       /\ lastOp' = "wakeGranted"
       /\ UNCHANGED <<now, groups, timerState, activeGroup, currentTaskIndex,
                      timerInterval, isPaused, startTime, taskDurationMs,
                      remainingTimeMs, intervals, wakeSupported, pendingReleases,
                      log, display, stopped, pure, pr, codec, ran>>

\* sw.js:81-83: the request promise rejects
WakeLockDenied ==
    /\ pendingRequests > 0
    /\ pendingRequests' = pendingRequests - 1
    /\ lastOp' = "wakeDenied"
    /\ UNCHANGED <<now, groups, timerState, activeGroup, currentTaskIndex,
                   timerInterval, isPaused, startTime, taskDurationMs,
                   remainingTimeMs, intervals, wakeSupported, wakeLock, heldLocks,
                   pendingReleases, log, display, stopped, pure, pr, codec, ran>>

\* sw.js:89-92: the continuation of release()
WakeLockReleased ==
    /\ pendingReleases > 0
    /\ pendingReleases' = pendingReleases - 1
    /\ wakeLock' = NoLock
    /\ lastOp' = "wakeReleased"
    /\ UNCHANGED <<now, groups, timerState, activeGroup, currentTaskIndex,
                   timerInterval, isPaused, startTime, taskDurationMs,
                   remainingTimeMs, intervals, wakeSupported, heldLocks,
                   pendingRequests, log, display, stopped, pure, pr, codec, ran>>

(* The timer on a platform without the Wake Lock API: requestWakeLock and  *)
(* releaseWakeLock do nothing there. The wake-lock variables are read and  *)
(* written by those two functions and their continuations alone, so the    *)
(* timer behaves the same on a platform that has the API.                  *)

Init == InitOn(FALSE) /\ codec = NoCodec /\ ran = Untracked

Next ==
    \/ Advance
    \/ \E groupId \in GroupIds : StartTimer(groupId)
    \/ \E ok \in BOOLEAN : TimerTick(ok)
    \/ \E ok \in BOOLEAN : TogglePause(ok)
    \/ SkipTask
    \/ StopTimer
    \/ \E gs \in Catalogs : Reload(gs)

Spec == Init /\ [][Next]_vars

(* The wake lock on a platform with the API: the entry points that request *)
(* or release it, interleaved with the settling of its promises.           *)

InitWake == InitOn(TRUE) /\ codec = NoCodec /\ ran = Untracked

NextWake ==
    \/ \E groupId \in GroupIds : StartTimer(groupId)
    \/ TimerTick(TRUE)
    \/ TogglePause(TRUE)
    \/ SkipTask
    \/ StopTimer
    \/ \E gs \in Catalogs : Reload(gs)
    \/ WakeLockGranted
    \/ WakeLockDenied
    \/ WakeLockReleased

SpecWake == InitWake /\ [][NextWake]_vars

(* The duration codec by itself: a duration text as the group builder     *)
(* reads it from its field (app.js:246) is given to timeToMs, and the      *)
(* milliseconds are given to msToTime.                                     *)

\* Hours as typed, and with two digits at least
HourSamples ==
    { [n |-> 0, plain |-> <<"0">>, padded |-> <<"0", "0">>],
      [n |-> 1, plain |-> <<"1">>, padded |-> <<"0", "1">>],
      [n |-> 10, plain |-> <<"1", "0">>, padded |-> <<"1", "0">>],
      [n |-> 100, plain |-> <<"1", "0", "0">>, padded |-> <<"1", "0", "0">>] }

\* Minutes and seconds, within 0..59
SixtySamples == {0, 1, 9, 10, 35, 59}

TwoDigits(n) == << Digits[(n \div 10) + 1], Digits[(n % 10) + 1] >>
Plain(n) == IF n < 10 THEN << Digits[n + 1] >> ELSE TwoDigits(n)

DurationInputs == [h : HourSamples, m : SixtySamples, s : SixtySamples, padded : BOOLEAN]

\* The text of the duration d, typed with or without leading zeros
Written(d) ==
    IF d.padded
    THEN d.h.padded \o << ":" >> \o TwoDigits(d.m) \o << ":" >> \o TwoDigits(d.s)
    ELSE d.h.plain \o << ":" >> \o Plain(d.m) \o << ":" >> \o Plain(d.s)

InitCodec ==
    /\ InitOn(FALSE)
    /\ ran = Untracked
    /\ \E d \in DurationInputs :
          codec = [step |-> "given", timeStr |-> Written(d), ms |-> 0, text |-> << >>]

\* app.js:23-29
TimeToMs ==
    /\ codec.step = "given"
    /\ codec' = [codec EXCEPT !.step = "parsed", !.ms = timeToMs(Parts(codec.timeStr))]
    /\ UNCHANGED <<engineVars, ran>>

\* app.js:12-18
MsToTime ==
    /\ codec.step = "parsed"
    /\ codec' = [codec EXCEPT !.step = "shown", !.text = msToTime(codec.ms)]
    /\ UNCHANGED <<engineVars, ran>>

NextCodec ==
    \/ TimeToMs
    \/ MsToTime

SpecCodec == InitCodec /\ [][NextCodec]_vars

---------------------------------------------------------------------------
(* C1 *)

NotifyEvent(g, task, type) ==
    [ev |-> "notify", group |-> g.id, task |-> task.name, num |-> 0, arg |-> type]

\* What the claim allows task number i (1-based) of g to emit, in order
TaskEvents(g, i) ==
    LET task == g.tasks[i]
    IN << [ev |-> "begin", group |-> g.id, task |-> task.name, num |-> i, arg |-> ""] >>
       \o (IF task.notify \in {"start", "both"} THEN << NotifyEvent(g, task, "start") >> ELSE << >>)
       \o (IF task.notify \in {"end", "both"} THEN << NotifyEvent(g, task, "end") >> ELSE << >>)

RECURSIVE ExpectedFrom(_, _)
ExpectedFrom(g, i) ==
    IF i > Len(g.tasks)
    THEN << [ev |-> "ended", group |-> "", task |-> "", num |-> 0, arg |-> "finished"] >>
    ELSE TaskEvents(g, i) \o ExpectedFrom(g, i + 1)

IsPrefix(a, b) == Len(a) <= Len(b) /\ SubSeq(b, 1, Len(a)) = a

\* The group the current run was started on
RunGroup == getGroupById(groups, log[1].group)

\* A run that saw only startTimer and ticks has come to its end.
PureRunDone == pure /\ activeGroup = Null

\* C1: a run of a group with N tasks that is only ticked visits the tasks
\* 0..N-1 in order, once each, and emits for each task exactly its start
\* notification if its policy is start or both and exactly its end
\* notification if its policy is end or both, and nothing else: while the run
\* lasts the calls made are a prefix of that sequence, and at its end they are
\* the whole of it, closed by routine-ended(finished).
C1_RunVisitsAndNotifies ==
    pure =>
        /\ log # << >>
        /\ IsPrefix(log, ExpectedFrom(RunGroup, 1))
        /\ (activeGroup = Null => log = ExpectedFrom(RunGroup, 1))

C1_Witness ==
    /\ PureRunDone
    /\ log[1].group = "g1"
    /\ Len(log) = 6

---------------------------------------------------------------------------
(* C2 *)

\* No task notification was the last call made to the UI layer.
NoNotifyPending == log = << >> \/ log[Len(log)].ev # "notify"

\* C2: when stopTimer returns, the persisted checkpoint is gone and no polling
\* timer is live; and from then until a run is started or recovered, no tick
\* writes a checkpoint and no task notification is emitted.
C2_StopIsFinal ==
    /\ lastOp = "stop" => (timerState = Absent /\ intervals = {})
    /\ (stopped /\ lastOp = "tick") => timerState = Absent
    /\ stopped => NoNotifyPending

---------------------------------------------------------------------------
(* C3 *)

\* C3: when a pause is followed by a resume with nothing but time between,
\* remainingTimeMs at the resume is what it was at the pause, and the first
\* tick after the resume, at time t, shows max(0, remaining at pause - (t -
\* time of resume)).
C3_PauseFreezesTime ==
    /\ pr.phase = "resumed" => remainingTimeMs = pr.rem
    /\ pr.phase = "ticked" => display.remaining = Max(0, pr.rem - (now - pr.at))

\* Paused at 2000 ms left, resumed 1000 ms later, ticked 1000 ms after that.
C3_Witness ==
    /\ pr.phase = "ticked"
    /\ pr.rem = 2000
    /\ pr.at = 1000
    /\ now = 2000
    /\ display.remaining = 1000

---------------------------------------------------------------------------
(* C4, C5 *)

\* The step is a page load that found a checkpoint and handed it to recoverTimer.
RecoverStep == timerState # Absent /\ lastOp' \in {"recover", "recoverFailed"}

\* The group the stored checkpoint names, in the catalog the page loads
CheckpointGroup == getGroupById(groups', timerState[1].groupId)

\* C4: recovering a checkpoint that is not paused, with remaining R and last
\* tick T, at a time now >= T, its group in the catalog and its task index in
\* range, succeeds with remainingTimeMs = max(0, R - (now - T)), startTime =
\* now - (taskDurationMs - remainingTimeMs), and polling scheduled.
C4_RecoverDeductsTimeAway ==
    [][ ( /\ RecoverStep
          /\ ~timerState[1].paused
          /\ now >= timerState[1].lastTick
          /\ ~Falsy(CheckpointGroup)
          /\ HasTask(CheckpointGroup, timerState[1].taskIndex) )
        => ( /\ lastOp' = "recover"
             /\ remainingTimeMs' = Max(0, timerState[1].remaining - (now - timerState[1].lastTick))
             /\ taskDurationMs' = timerState[1].taskDuration
             /\ startTime' = now - (taskDurationMs' - remainingTimeMs')
             /\ timerInterval' \in intervals' ) ]_vars

\* Recovered 1000 ms after a checkpoint with 2000 ms left.
C4_Witness ==
    /\ lastOp = "recover"
    /\ ~isPaused
    /\ timerState # Absent
    /\ timerState[1].remaining = 2000
    /\ now = timerState[1].lastTick + 1000
    /\ remainingTimeMs = 1000
    /\ intervals # {}

\* C5: recovering a checkpoint whose group is not in the catalog fails and
\* leaves the engine Idle: no active group, not paused, no polling
\* scheduled, and no checkpoint persisted.
C5_RecoverMissingGroupFails ==
    [][ (RecoverStep /\ CheckpointGroup = Undefined)
        => ( /\ lastOp' = "recoverFailed"
             /\ Falsy(activeGroup')
             /\ ~isPaused'
             /\ intervals' = {}
             /\ timerState' = Absent ) ]_vars

C5_Witness ==
    /\ lastOp = "recoverFailed"
    /\ activeGroup = Undefined
    /\ timerState = Absent

---------------------------------------------------------------------------
(* C6 *)

\* The id of the active group, if one is active
ActiveId(g) == IF Falsy(g) THEN "" ELSE g.id

\* C6: a startTimer that fails (group absent, or without tasks) changes no
\* engine state: the active group, the task index, the paused flag, the
\* polling schedule and the persisted checkpoint are as before the call.
C6_FailedStartChangesNothing ==
    [][ lastOp' = "startFailed"
        => ( /\ ActiveId(activeGroup') = ActiveId(activeGroup)
             /\ currentTaskIndex' = currentTaskIndex
             /\ isPaused' = isPaused
             /\ intervals' = intervals
             /\ timerState' = timerState ) ]_vars

---------------------------------------------------------------------------
(* C7 *)

\* C7: a checkpoint is persisted if and only if a session is active.
C7_CheckpointIffSession ==
    (timerState # Absent) <=> ~Falsy(activeGroup)

---------------------------------------------------------------------------
(* C8 *)

WakeSettled == pendingRequests = 0 /\ pendingReleases = 0

\* C8: with every wake-lock promise settled, no wake lock is held while the
\* engine is Idle after a stopTimer, and while a run is active every lock
\* held is the one the engine tracks, so that the next stopTimer releases it.
C8_NoWakeLockLeak ==
    WakeSettled =>
        /\ (stopped /\ activeGroup = Null) => heldLocks = {}
        /\ (~Falsy(activeGroup)) => heldLocks \subseteq {wakeLock}

---------------------------------------------------------------------------
(* C9, C10 *)

\* C9: at most one polling timer is live, and it is the one timerInterval
\* names, so that the next clearInterval(timerInterval) cancels it.
C9_OnePollingTimer ==
    /\ Cardinality(intervals) <= 1
    /\ intervals \subseteq {timerInterval}

\* A run was started over a run that was polling: the earlier timer is gone.
C9_Witness ==
    /\ lastOp = "start"
    /\ timerState # Absent
    /\ timerState[1].groupId # activeGroup.id
    /\ ~timerState[1].paused
    /\ timerState[1].lastTick = now
    /\ intervals = {timerInterval}

\* C10: while paused, no polling timer is live.
C10_PausedMeansNoPolling ==
    isPaused => intervals = {}

C10_Witness ==
    /\ lastOp = "pause"
    /\ isPaused
    /\ ~Falsy(activeGroup)
    /\ display # NoDisplay
    /\ intervals = {}

---------------------------------------------------------------------------
(* C11 *)

\* A session is active and its current task exists: Running(i) or Paused(i)
\* with i = currentTaskIndex.
OnTask == ~Falsy(activeGroup) /\ HasTask(activeGroup, currentTaskIndex)

LastEvent(l) == l[Len(l)]

\* C11: skipTask from Running(i) or Paused(i) moves to Running(i+1) when
\* i+1 < len(tasks): same group, index i+1, not paused, the new task's full
\* duration remaining from now, polling scheduled. When i is the last task it
\* goes straight to routine-complete: engine Idle, no polling, checkpoint
\* cleared, routine-ended(finished) reported, and no task is read at an
\* index >= len(tasks) (TaskAt is applied under the guard of processTask
\* alone).
C11_SkipAdvancesOrFinishes ==
    [][ (lastOp' = "skip" /\ OnTask)
        => IF currentTaskIndex + 1 < Len(activeGroup.tasks)
           THEN /\ activeGroup' = activeGroup
                /\ currentTaskIndex' = currentTaskIndex + 1
                /\ ~isPaused'
                /\ taskDurationMs' = timeToMs(TaskAt(activeGroup, currentTaskIndex + 1).duration)
                /\ remainingTimeMs' = taskDurationMs'
                /\ startTime' = now
                /\ timerInterval' \in intervals'
                /\ LastEvent(log').ev # "ended"
           ELSE /\ activeGroup' = Null
                /\ currentTaskIndex' = 0
                /\ ~isPaused'
                /\ intervals' = {}
                /\ timerState' = Absent
                /\ LastEvent(log') = [ev |-> "ended", group |-> "", task |-> "",
                                      num |-> 0, arg |-> "finished"] ]_vars

\* The last task of g1 was skipped.
C11_Witness ==
    /\ lastOp = "skip"
    /\ activeGroup = Null
    /\ timerState = Absent
    /\ Len(log) = 5
    /\ log[1].group = "g1"
    /\ log[4].task = "b"
    /\ log[5].arg = "finished"

---------------------------------------------------------------------------
(* C12 *)

\* The step is the polling callback running in a session that is not paused,
\* whether or not its checkpoint write succeeds.
TickStep == lastOp' \in {"tick", "tickThrew"}

\* The current task has run out at the time of the step.
TimeIsUp == Max(0, taskDurationMs - (now - startTime)) = 0

\* The calls made to the UI layer during the step
Emitted == SubSeq(log', Len(log) + 1, Len(log'))

\* C12: a tick that finds the current task's time run out emits the task's
\* end notification if its policy is end or both and advances to the next
\* task (or finishes the routine), also when the tick's checkpoint write
\* throws.
C12_WriteFailureKeepsCompletion ==
    [][ (TickStep /\ OnTask /\ TimeIsUp)
        => LET task == TaskAt(activeGroup, currentTaskIndex)
           IN /\ \/ activeGroup' = Null
                 \/ currentTaskIndex' = currentTaskIndex + 1
              /\ task.notify \in {"end", "both"}
                    => /\ Emitted # << >>
                       /\ Emitted[1] = NotifyEvent(activeGroup, task, "end") ]_vars

---------------------------------------------------------------------------
(* C13 *)

\* C13: while a session is active, 0 <= remainingTimeMs <= taskDurationMs.
C13_RemainingWithinDuration ==
    ~Falsy(activeGroup) =>
        /\ 0 <= remainingTimeMs
        /\ remainingTimeMs <= taskDurationMs

\* Recovered after more time away than the checkpoint had left.
C13_Witness ==
    /\ lastOp = "recover"
    /\ ~isPaused
    /\ timerState # Absent
    /\ timerState[1].remaining > 0
    /\ now - timerState[1].lastTick > timerState[1].remaining
    /\ remainingTimeMs = 0
    /\ taskDurationMs = 2000

---------------------------------------------------------------------------
(* C14 *)

\* The engine is Running (polling) or Paused on an active group.
RunningOrPaused == ~Falsy(activeGroup) /\ (isPaused \/ intervals # {})

\* C14: 0 <= currentTaskIndex <= len(activeGroup.tasks) in every state, and
\* while the engine is Running or Paused the index is below the length, so
\* that the current task exists.
C14_IndexInRange ==
    /\ 0 <= currentTaskIndex
    /\ ~Falsy(activeGroup) => currentTaskIndex <= Len(activeGroup.tasks)
    /\ RunningOrPaused => currentTaskIndex < Len(activeGroup.tasks)

---------------------------------------------------------------------------
(* C15 *)

\* The duration whose text was given to the codec
CodecInput == CHOOSE d \in DurationInputs : Written(d) = codec.timeStr

\* Zero-padded HH:MM:SS of the hours, minutes and seconds of d
Normalised(d) == d.h.padded \o << ":" >> \o TwoDigits(d.m) \o << ":" >> \o TwoDigits(d.s)

\* C15: for hours, minutes and seconds with 0 <= minutes, seconds <= 59,
\* timeToMs of their HH:MM:SS text is their total of seconds times 1000, and
\* msToTime of that is the zero-padded HH:MM:SS text of the same hours,
\* minutes and seconds.
C15_CodecRoundTrip ==
    /\ codec.step \in {"parsed", "shown"}
          => codec.ms = (CodecInput.h.n * 3600 + CodecInput.m * 60 + CodecInput.s) * 1000
    /\ codec.step = "shown" => codec.text = Normalised(CodecInput)

\* "1:9:59" came back as "01:09:59".
C15_Witness ==
    /\ codec.step = "shown"
    /\ codec.timeStr = <<"1", ":", "9", ":", "5", "9">>
    /\ codec.ms = 4199000
    /\ codec.text = <<"0", "1", ":", "0", "9", ":", "5", "9">>

---------------------------------------------------------------------------
(* C16 *)

\* C16: a tick in Running state shows max(0, taskDurationMs - (now -
\* startTime)), whatever ticks ran before it and whenever they ran; unless
\* the tick completes the task, that is remainingTimeMs after it, and
\* startTime and taskDurationMs are as they were.
C16_DriftFreeTick ==
    [][ (TickStep /\ OnTask)
        => /\ display'.remaining = Max(0, taskDurationMs - (now - startTime))
           /\ display'.duration = taskDurationMs
           /\ (display'.remaining # 0 \/ lastOp' = "tickThrew")
                 => /\ remainingTimeMs' = display'.remaining
                    /\ startTime' = startTime
                    /\ taskDurationMs' = taskDurationMs ]_vars

\* A tick 1000 ms into a task of 2000 ms.
C16_Witness ==
    /\ lastOp = "tick"
    /\ OnTask
    /\ ~isPaused
    /\ startTime = 0
    /\ now = 1000
    /\ taskDurationMs = 2000
    /\ remainingTimeMs = 1000
    /\ timerState # Absent
    /\ timerState[1].remaining = 1000

---------------------------------------------------------------------------
(* C17 *)

\* C17: recovering a checkpoint whose group is in the catalog but whose task
\* index is out of range for that group fails, discards the checkpoint and
\* leaves the engine Idle: no active group retained, not paused, no polling
\* scheduled.
C17_RecoverBadIndexFails ==
    [][ ( /\ RecoverStep
          /\ ~Falsy(CheckpointGroup)
          /\ ~HasTask(CheckpointGroup, timerState[1].taskIndex) )
        => ( /\ lastOp' = "recoverFailed"
             /\ timerState' = Absent
             /\ Falsy(activeGroup')
             /\ ~isPaused'
             /\ intervals' = {} ) ]_vars

---------------------------------------------------------------------------
(* C18 *)

\* C18: when a start, a tick (advancing the task or not), a pause, a resume
\* or a skip has returned, the session is active and a checkpoint is
\* persisted, the checkpoint names the session's group, task index and
\* paused flag.
C18_CheckpointDescribesSession ==
    ( /\ lastOp \in {"start", "tick", "pause", "resume", "skip"}
      /\ ~Falsy(activeGroup)
      /\ timerState # Absent )
    => ( /\ timerState[1].groupId = activeGroup.id
         /\ timerState[1].taskIndex = currentTaskIndex
         /\ timerState[1].paused = isPaused )

---------------------------------------------------------------------------
(* C19 *)

\* What beginning task number i (1-based) of g emits
BeginEvents(g, i) ==
    LET task == g.tasks[i]
    IN << [ev |-> "begin", group |-> g.id, task |-> task.name, num |-> i, arg |-> ""] >>
       \o (IF task.notify \in {"start", "both"} THEN << NotifyEvent(g, task, "start") >> ELSE << >>)

\* C19: a tick that finds the current task's time run out emits, in this
\* order, the end notification of that task if its policy is end or both,
\* then what beginning the next task emits (its display, its start
\* notification if its policy is start or both), or routine-ended(finished)
\* if there is no next task. After it the index is one higher, startTime is
\* now, the remaining time is the next task's duration and one polling timer
\* is live; or the engine is Idle with none.
C19_CompletionOrder ==
    [][ (lastOp' = "tick" /\ OnTask /\ TimeIsUp)
        => LET task == TaskAt(activeGroup, currentTaskIndex)
               endPart == IF task.notify \in {"end", "both"}
                          THEN << NotifyEvent(activeGroup, task, "end") >>
                          ELSE << >>
           IN IF HasTask(activeGroup, currentTaskIndex + 1)
              THEN /\ Emitted = endPart \o BeginEvents(activeGroup, currentTaskIndex + 2)
                   /\ activeGroup' = activeGroup
                   /\ currentTaskIndex' = currentTaskIndex + 1
                   /\ startTime' = now
                   /\ taskDurationMs' =
                         timeToMs(TaskAt(activeGroup, currentTaskIndex + 1).duration)
                   /\ remainingTimeMs' = taskDurationMs'
                   /\ ~isPaused'
                   /\ intervals' = {timerInterval'}
              ELSE /\ Emitted = endPart \o << [ev |-> "ended", group |-> "", task |-> "",
                                                num |-> 0, arg |-> "finished"] >>
                   /\ activeGroup' = Null
                   /\ intervals' = {} ]_vars

\* Task a of g1 (notify both) ran out and task b (notify start) began.
C19_Witness ==
    /\ lastOp = "tick"
    /\ OnTask
    /\ currentTaskIndex = 1
    /\ startTime = now
    /\ Len(log) >= 3
    /\ SubSeq(log, Len(log) - 2, Len(log)) =
          << NotifyEvent(activeGroup, TaskAt(activeGroup, 0), "end") >>
          \o BeginEvents(activeGroup, 2)
    /\ log[Len(log)].arg = "start"

---------------------------------------------------------------------------
(* C20 *)

\* C20: recovering a paused checkpoint, its group in the catalog and its
\* task index in range, succeeds with currentTaskIndex, taskDurationMs,
\* remainingTimeMs and isPaused as the checkpoint has them, whatever time
\* passed since its lastTick, and schedules no polling: the engine is
\* Paused on that task of the group, and the checkpoint stays.
C20_RecoverPausedVerbatim ==
    [][ ( /\ RecoverStep
          /\ timerState[1].paused
          /\ ~Falsy(CheckpointGroup)
          /\ HasTask(CheckpointGroup, timerState[1].taskIndex) )
        => ( /\ lastOp' = "recover"
             /\ activeGroup' = CheckpointGroup
             /\ currentTaskIndex' = timerState[1].taskIndex
             /\ taskDurationMs' = timerState[1].taskDuration
             /\ remainingTimeMs' = timerState[1].remaining
             /\ isPaused'
             /\ intervals' = {}
             /\ timerState' = timerState ) ]_vars

\* Recovered 2000 ms after a pause with 1000 ms left.
C20_Witness ==
    /\ lastOp = "recover"
    /\ isPaused
    /\ timerState # Absent
    /\ timerState[1].paused
    /\ now = timerState[1].lastTick + 2000
    /\ timerState[1].remaining = 1000
    /\ remainingTimeMs = 1000
    /\ intervals = {}

---------------------------------------------------------------------------
(* C21 *)

\* Idle: no active group, not paused, no polling scheduled, no checkpoint.
IdleEngine ==
    /\ Falsy(activeGroup)
    /\ ~isPaused
    /\ intervals = {}
    /\ timerState = Absent

\* C21: togglePause, skipTask and stopTimer called in Idle leave the engine
\* Idle, and a tick that finds no active group changes nothing of the
\* active group, the paused flag, the polling schedule and the checkpoint.
C21_IdleEntryPointsStayIdle ==
    [][ /\ (IdleEngine /\ lastOp' \in {"pause", "resume", "toggleThrew", "skip", "stop"})
            => IdleEngine'
        /\ (Falsy(activeGroup) /\ lastOp' \in {"tick", "tickThrew", "tickIdle"})
            => ( /\ activeGroup' = activeGroup
                 /\ isPaused' = isPaused
                 /\ intervals' = intervals
                 /\ timerState' = timerState ) ]_vars

---------------------------------------------------------------------------
(* C22 *)

(* One run from its start to its end: the run is started once, time passes *)
(* while a task is running, the interval callback runs, its checkpoint     *)
(* write succeeding or not (setItem throws, storage.js:38), and the user   *)
(* may pause and resume. Neither Stop, Skip nor a page load occurs. The    *)
(* clock is not held up by MaxTime here: it moves as long as the current   *)
(* task has time left, so that every tick is in time for the completion it *)
(* has to find.                                                            *)

\* The Start button, once, on the freshly loaded page
StartRun(groupId) ==
    /\ now = 0
    /\ Falsy(activeGroup)
    /\ StartTimer(groupId)

\* Time passes while the current task has time left.
Elapse ==
    /\ OnTask
    /\ ~isPaused
    /\ ~TimeIsUp
    /\ now' = now + ClockStep
    /\ lastOp' = "advance"
    /\ pr' = IF pr.phase = "ticked" THEN PrNone ELSE pr
    /\ UNCHANGED <<groups, timerState, activeGroup, currentTaskIndex, timerInterval,
                   isPaused, startTime, taskDurationMs, remainingTimeMs, intervals,
                   wakeSupported, wakeLock, heldLocks, pendingRequests,
                   pendingReleases, log, display, stopped, pure, codec, ran>>

\* The Pause/Resume button while a run is on. The callback runs every 100 ms
\* (sw.js:138), so a pause finds the remaining time of its own instant.
PauseRun(ok) ==
    /\ ~Falsy(activeGroup)
    /\ ~isPaused
    /\ remainingTimeMs = Max(0, taskDurationMs - (now - startTime))
    /\ TogglePause(ok)

ResumeRun(ok) == ~Falsy(activeGroup) /\ isPaused /\ TogglePause(ok)

NextRun ==
    \/ \E groupId \in GroupIds : StartRun(groupId)
    \/ Elapse
    \/ \E ok \in BOOLEAN : TimerTick(ok)
    \/ \E ok \in BOOLEAN : PauseRun(ok)
    \/ \E ok \in BOOLEAN : ResumeRun(ok)

\* The clock keeps advancing, a paused run is resumed, and the callback of a
\* live interval keeps running; that its write succeeds is not promised.
FairRun ==
    /\ SF_vars(Elapse)
    /\ SF_vars(\E ok \in BOOLEAN : ResumeRun(ok))
    /\ SF_vars(TimerTick(FALSE))

SpecRun == Init /\ [][NextRun]_vars /\ FairRun

\* C22: a run that was started on a group with tasks comes to its end by a
\* tick: the engine is Idle, the checkpoint is cleared and
\* routine-ended(finished) is the last call made.
C22_RunFinishes ==
    (lastOp = "start")
        ~> ( /\ lastOp = "tick"
             /\ IdleEngine
             /\ log # << >>
             /\ LastEvent(log).ev = "ended"
             /\ LastEvent(log).arg = "finished" )

---------------------------------------------------------------------------
(* C23 *)

(* The timer with the running time of the task in memory followed: `ran`   *)
(* starts at 0 when processTask begins a task, grows with the clock while  *)
(* that task is current and isPaused is false, and is carried over a page  *)
(* load that recovers the same task of the same group. A load that puts    *)
(* another task in place, or none, ends the following. A run is started   *)
(* when none is on; ticks, pauses, resumes, skips, stops and page loads    *)
(* come in any order, a checkpoint write may throw (storage.js:38), and    *)
(* the page is loaded with the catalog it had.                             *)

\* The state s has a current task.
HasCurrentTask(s) == ~Falsy(s.activeGroup) /\ HasTask(s.activeGroup, s.currentTaskIndex)

\* `ran` after a tick or a skip took the engine from St to s2 (sw.js:172-173,
\* 213-214: the index moves when processTask is called for the next task)
RanAfter(s2) ==
    IF ~HasCurrentTask(s2) THEN Untracked
    ELSE IF s2.currentTaskIndex # currentTaskIndex THEN << 0 >>
    ELSE ran

TrackAdvance ==
    /\ now + ClockStep <= MaxTime
    /\ now' = now + ClockStep
    /\ lastOp' = "advance"
    /\ pr' = IF pr.phase = "ticked" THEN PrNone ELSE pr
    /\ ran' = IF ran # Untracked /\ ~isPaused THEN << ran[1] + ClockStep >> ELSE ran
    /\ UNCHANGED <<groups, timerState, activeGroup, currentTaskIndex, timerInterval,
                   isPaused, startTime, taskDurationMs, remainingTimeMs, intervals,
                   wakeSupported, wakeLock, heldLocks, pendingRequests,
                   pendingReleases, log, display, stopped, pure, codec>>

TrackStartTimer(groupId) ==
    LET s2 == startTimer([St EXCEPT !.log = << >>], groupId)
        ok == HasCurrentTask(s2)
    IN /\ Falsy(activeGroup)
       /\ Bounded(s2)
       /\ Becomes(s2)
       /\ lastOp' = IF ok THEN "start" ELSE "startFailed"
       /\ stopped' = IF ok THEN FALSE ELSE stopped
       /\ pure' = ok
       /\ pr' = PrNone
       /\ ran' = IF ok THEN << 0 >> ELSE Untracked
       /\ UNCHANGED <<now, wakeSupported, codec>>

TrackTimerTick(ok) ==
    LET s2 == timerTick(St, ok)
        idle == isPaused \/ Falsy(activeGroup)
    IN /\ intervals # {}
       /\ Bounded(s2)
       /\ Becomes(s2)
       /\ lastOp' = IF idle THEN "tickIdle" ELSE IF ok THEN "tick" ELSE "tickThrew"
       /\ stopped' = IF Ended(St, s2) THEN TRUE ELSE stopped
       /\ pure' = pure
       /\ pr' = IF idle THEN pr
                ELSE IF pr.phase = "resumed" THEN [pr EXCEPT !.phase = "ticked"]
                ELSE PrNone
       /\ ran' = RanAfter(s2)
       /\ UNCHANGED <<now, wakeSupported, codec>>

TrackTogglePause(ok) ==
    LET s2 == togglePause(St, ok)
    IN /\ Becomes(s2)
       /\ lastOp' = IF Falsy(activeGroup) \/ ~ok THEN "toggleThrew"
                    ELSE IF s2.isPaused THEN "pause" ELSE "resume"
       /\ stopped' = stopped
       /\ pure' = FALSE
       /\ pr' = IF Falsy(activeGroup) THEN PrNone
                ELSE IF s2.isPaused
                THEN [phase |-> "paused", rem |-> remainingTimeMs, at |-> 0]
                ELSE IF pr.phase = "paused"
                THEN [phase |-> "resumed", rem |-> pr.rem, at |-> now]
                ELSE PrNone
       /\ ran' = ran
       /\ UNCHANGED <<now, wakeSupported, codec>>

TrackSkipTask ==
    LET s2 == skipTask(St)
    IN /\ Bounded(s2)
       /\ Becomes(s2)
       /\ lastOp' = "skip"
       /\ stopped' = IF Ended(St, s2) THEN TRUE ELSE stopped
       /\ pure' = FALSE
       /\ pr' = PrNone
       /\ ran' = RanAfter(s2)
       /\ UNCHANGED <<now, wakeSupported, codec>>

TrackStopTimer ==
    LET s2 == stopTimer(St, FALSE)
    IN /\ Bounded(s2)
       /\ Becomes(s2)
       /\ lastOp' = "stop"
       /\ stopped' = TRUE
       /\ pure' = FALSE
       /\ pr' = PrNone
       /\ ran' = Untracked
       /\ UNCHANGED <<now, wakeSupported, codec>>

TrackReload ==
    LET r == initApp(St, groups)
        same == /\ r.ret
                /\ ran # Untracked
                /\ r.st.activeGroup.id = activeGroup.id
                /\ r.st.currentTaskIndex = currentTaskIndex
    IN /\ Becomes(r.st)
       /\ lastOp' = IF r.ret THEN "recover"
                    ELSE IF timerState # Absent THEN "recoverFailed"
                    ELSE "load"
       /\ stopped' = IF r.ret THEN FALSE ELSE stopped
       /\ pure' = FALSE
       /\ pr' = PrNone
       /\ ran' = IF same THEN ran ELSE Untracked
       /\ UNCHANGED <<now, wakeSupported, codec>>

NextTrack ==
    \/ TrackAdvance
    \/ \E groupId \in GroupIds : TrackStartTimer(groupId)
    \/ \E ok \in BOOLEAN : TrackTimerTick(ok)
    \/ \E ok \in BOOLEAN : TrackTogglePause(ok)
    \/ TrackSkipTask
    \/ TrackStopTimer
    \/ TrackReload

SpecTrack == Init /\ [][NextTrack]_vars

\* C23: a tick completes the task in memory (it goes on to the next task or
\* ends the run) only when that task has been running, pauses not counted,
\* for at least taskDurationMs.
C23_NoEarlyCompletion ==
    [][ ( /\ lastOp' = "tick"
          /\ ran # Untracked
          /\ (Falsy(activeGroup') \/ currentTaskIndex' # currentTaskIndex) )
        => ran[1] >= taskDurationMs ]_vars

====
